---- MODULE Spec2Model ----
(***************************************************************************)
(* Model of modules/network/ne/ne_command.py: the ne_command module's      *)
(* main(), which runs a batch of commands on the device and polls until    *)
(* the wait_for conditionals hold or the retries are used up.              *)
(*                                                                         *)
(* The module's collaborators (run_commands, Conditional, AnsibleModule)   *)
(* are imported, not defined, by the file; they are modelled at their      *)
(* call sites by the outcomes main() can observe: a value, or an           *)
(* exception / fail_json that ends the process.                            *)
(***************************************************************************)
EXTENDS Integers, Sequences, FiniteSets, TLC

VARIABLES
    params,             \* module.params: commands, wait_for, match, retries, interval
    check_mode,         \* module.check_mode
    pc,                 \* position of main()
    commands,           \* local `commands` (line 206)
    warnings,           \* local `warnings` (line 204)
    conditionals,       \* local `conditionals` (line 212): the outstanding Conditional objects
    retries,            \* local `retries` (line 216)
    responses,          \* local `responses` (line 221); unbound until the first assignment
    outcome,            \* how the process ended
    failed_conditions,  \* fail_json(failed_conditions=...) (line 239)
    result,             \* exit_json(**result) (line 246)
    execs,              \* history: calls of run_commands made
    sleeps,             \* history: calls of time.sleep made
    slept,              \* history: seconds slept in total
    failures,           \* history: calls of run_commands that failed
    evals,              \* history: evaluation passes (line 223) begun
    satisfied,          \* history: ids of the conditionals that returned True
    evalLog,            \* history: per pass, the <<id, verdict>> pairs in evaluation order
    leftLog,            \* history: per pass, the ids left outstanding when it ended
    responsesLog,       \* history: the responses run_commands returned, call by call
    sent                \* history: the batch handed to the last run_commands call

vars == <<params, check_mode, pc, commands, warnings, conditionals, retries,
          responses, outcome, failed_conditions, result, execs, sleeps, slept,
          failures, evals, satisfied, evalLog, leftLog, responsesLog, sent>>

(***************************************************************************)
(* Bounds of the model and the sets the inputs are drawn from.             *)
(***************************************************************************)
MaxRetries == 3
MaxConds == 2

Range(s) == {s[i] : i \in 1..Len(s)}

SeqsUpTo(S, n) == UNION {[1..k -> S] : k \in 0..n}

\* Command texts, as strings of characters.
DisplayVersion == <<"d", "i", "s", "p", "l", "a", "y">>
ResetCmd == <<"r", "e", "s", "e", "t">>

CommandBatches == {<<DisplayVersion>>, <<DisplayVersion, ResetCmd>>}

\* Raw conditional strings of wait_for.
RawHuawei == "result[0] contains HUAWEI"
RawBoard == "result[1] contains Board"
RawBadOp == "result[0] frobs X"
RawBadQuote == "result[0] contains 'X"

RawConditions == {RawHuawei, RawBoard, RawBadOp, RawBadQuote}

\* Device outputs: a text is a sequence of words and newlines.
NL == "\n"
Outputs == {<<"HUAWEI", "VRP", NL, "Board", "ok">>, <<"Cisco", "IOS">>}

Intervals == {0, 2}

Unbound == [bound |-> FALSE, value |-> <<>>]
Bound(v) == [bound |-> TRUE, value |-> v]

NoResult == [changed |-> FALSE, stdout |-> <<>>, stdout_lines |-> <<>>]

(***************************************************************************)
(* Collaborators, as seen from their call sites.                           *)
(***************************************************************************)

\* Conditional(c) (line 212): the parsed conditional, or the exception the
\* constructor raises.  An unknown operator raises AttributeError; a string
\* the tokenizer rejects raises ValueError.
Conditional(c, id) ==
    CASE c = RawHuawei ->
           [status |-> "ok", id |-> id, raw |-> c, index |-> 0, op |-> "contains", value |-> "HUAWEI"]
      [] c = RawBoard ->
           [status |-> "ok", id |-> id, raw |-> c, index |-> 1, op |-> "contains", value |-> "Board"]
      [] c = RawBadOp ->
           [status |-> "AttributeError", id |-> id, raw |-> c, index |-> 0, op |-> "frobs", value |-> "X"]
      [] OTHER ->
           [status |-> "ValueError", id |-> id, raw |-> c, index |-> 0, op |-> "", value |-> ""]

\* item(responses) (line 224): "true", "false", or "error" when the
\* conditional cannot be applied to the result (index out of range).
Call(item, resp) ==
    IF item.index >= Len(resp)
    THEN "error"
    ELSE IF item.value \in Range(resp[item.index + 1]) THEN "true" ELSE "false"

\* run_commands(module, commands) (line 221): one output per command.
ResponseSets(cmds) == [1..Len(cmds) -> Outputs]

(***************************************************************************)
(* Pure helpers of the module.                                             *)
(***************************************************************************)

startswith(s, prefix) ==
    /\ Len(s) >= Len(prefix)
    /\ SubSeq(s, 1, Len(prefix)) = prefix

\* str.split('\n') on one text.
RECURSIVE split(_)
split(text) ==
    IF \A i \in 1..Len(text) : text[i] # NL
    THEN <<text>>
    ELSE LET k == CHOOSE i \in 1..Len(text) :
                      text[i] = NL /\ \A j \in 1..(i - 1) : text[j] # NL
         IN <<SubSeq(text, 1, k - 1)>> \o split(SubSeq(text, k + 1, Len(text)))

to_lines(stdout) == [i \in 1..Len(stdout) |-> split(stdout[i])]

\* ComplexList transform of the commands parameter (lines 160-166).
transform(cmds) ==
    [i \in 1..Len(cmds) |-> [command |-> cmds[i], prompt |-> "None", answer |-> "None"]]

\* The warning loop of parse_commands (lines 168-173).
RECURSIVE CheckModeWarnings(_, _)
CheckModeWarnings(cmds, check) ==
    IF cmds = <<>>
    THEN <<>>
    ELSE LET item == Head(cmds)
             rest == CheckModeWarnings(Tail(cmds), check)
         IN IF check /\ ~startswith(item.command, <<"d", "i", "s">>)
            THEN <<[warning |-> "check_mode_not_executing", command |-> item.command]>> \o rest
            ELSE rest

\* Variant of remove: equality by raw string, every equal entry dropped.
removeEqualRaw(conds, item) ==
    LET Differs(c) == c.raw # item.raw
    IN SelectSeq(conds, Differs)

\* Variant of remove: drops the head of the list, whatever item is.
removeFirst(conds, item) == Tail(conds)

\* list.remove(item) (line 228): drops the first element equal to item.
\* Conditional defines no __eq__, so equality is object identity (the id).
RECURSIVE remove(_, _)
remove(conds, item) ==
    IF conds = <<>>
    THEN <<>>
    ELSE IF Head(conds).id = item.id
         THEN Tail(conds)
         ELSE <<Head(conds)>> \o remove(Tail(conds), item)

\* Variant of ExecFailed: the failure is taken for "not satisfied yet".
ExecFailedSwallowed == [pc |-> "sleep", outcome |-> "running"]

\* A failure of run_commands (line 221) is caught nowhere in main(): the
\* process ends there.
ExecFailed == [pc |-> "done", outcome |-> "ExecutionFailure"]

\* Variant of Raises: an exception counts as a False verdict.
RaisesNever(v) == FALSE

\* An exception of item(responses) (line 224) is caught nowhere either.
Raises(v) == v = "error"

\* Variant of LoopCond: one more round than retries.
LoopCondInclusive(r) == r >= 0

\* The loop condition of line 220.
LoopCond(r) == r > 0

\* Variant of ClearsAll: the policy is ignored, one True verdict is enough.
ClearsAllAlways(m) == TRUE

\* Variant of ClearsAll: a True verdict removes its own conditional only.
ClearsAllNever(m) == FALSE

\* The match policy test of line 225.
ClearsAll(m) == m = "any"

\* Variant of EvalPass: the loop runs over the list it mutates (no list()
\* copy), so the iterator's position skips the entry after a removed one.
RECURSIVE LiveIteration(_, _, _, _, _)
LiveIteration(conds, pos, resp, m, log) ==
    IF pos > Len(conds)
    THEN [conditionals |-> conds, log |-> log, raised |-> FALSE]
    ELSE LET item == conds[pos]
             v == Call(item, resp)
             log2 == Append(log, <<item.id, v>>)
         IN CASE v = "error" ->
                   [conditionals |-> conds, log |-> log2, raised |-> TRUE]
              [] v = "true" ->
                   IF m = "any"
                   THEN [conditionals |-> <<>>, log |-> log2, raised |-> FALSE]
                   ELSE LiveIteration(SelectSeq(conds, LAMBDA c : c.id # item.id),
                                      pos + 1, resp, m, log2)
              [] OTHER ->
                   LiveIteration(conds, pos + 1, resp, m, log2)

EvalPassLive(snapshot, conds, resp, m, log) == LiveIteration(conds, 1, resp, m, log)

\* The evaluation pass of lines 223-228 over snapshot = list(conditionals):
\* the conditionals left outstanding, the verdicts in evaluation order, and
\* whether a conditional raised (which ends the pass and the process).
RECURSIVE EvalPass(_, _, _, _, _)
EvalPass(snapshot, conds, resp, m, log) ==
    IF snapshot = <<>>
    THEN [conditionals |-> conds, log |-> log, raised |-> FALSE]
    ELSE LET item == Head(snapshot)
             v == Call(item, resp)
             log2 == Append(log, <<item.id, v>>)
         IN CASE Raises(v) ->
                   [conditionals |-> conds, log |-> log2, raised |-> TRUE]
              [] v = "true" ->
                   IF ClearsAll(m)
                   THEN [conditionals |-> <<>>, log |-> log2, raised |-> FALSE]
                   ELSE EvalPass(Tail(snapshot), remove(conds, item), resp, m, log2)
              [] OTHER ->
                   EvalPass(Tail(snapshot), conds, resp, m, log2)

\* Variant of Breaks: the loop is left only by its condition.
BreaksNever(conds) == FALSE

\* The break test of lines 230-231: if not conditionals.
Breaks(conds) == conds = <<>>

\* Variant of Returned: the responses of the first round are kept.
ReturnedFirst(resp) == IF responsesLog # <<>> THEN responsesLog[1] ELSE resp.value

\* The `responses` read at lines 242-243: the value of the last assignment.
Returned(resp) == resp.value

\* Variant of Raws: every raw string of wait_for.
RawsOfAll(conds) == params.wait_for

\* [item.raw for item in conditionals] (line 237).
Raws(conds) == [i \in 1..Len(conds) |-> conds[i].raw]

\* [Conditional(c) for c in wait_for] (line 212).
Parsed(wait_for) == [i \in 1..Len(wait_for) |-> Conditional(wait_for[i], i)]

\* Variant of FirstFailure: constructor errors go unnoticed.
FirstFailureIgnored(built) == 0

\* The first constructor of the comprehension that raises (0: none does).
FirstFailure(built) ==
    LET bad == {i \in 1..Len(built) : built[i].status # "ok"}
    IN IF bad = {} THEN 0 ELSE CHOOSE i \in bad : \A j \in bad : i <= j

(***************************************************************************)
(* State after the AnsibleModule is constructed (line 200-202).            *)
(***************************************************************************)
Init ==
    /\ params \in [commands : CommandBatches,
                   wait_for : SeqsUpTo(RawConditions, MaxConds),
                   match : {"all", "any"},
                   retries : 0..MaxRetries,
                   interval : Intervals]
    /\ check_mode \in BOOLEAN
    /\ pc = "parse_commands"
    /\ commands = <<>>
    /\ warnings = <<>>
    /\ conditionals = <<>>
    /\ retries = 0
    /\ responses = Unbound
    /\ outcome = "running"
    /\ failed_conditions = <<>>
    /\ result = NoResult
    /\ execs = 0
    /\ sleeps = 0
    /\ slept = 0
    /\ failures = 0
    /\ evals = 0
    /\ satisfied = {}
    /\ evalLog = <<>>
    /\ leftLog = <<>>
    /\ responsesLog = <<>>
    /\ sent = <<>>

(***************************************************************************)
(* The steps of main().                                                    *)
(***************************************************************************)

\* Lines 204-207: check_args adds nothing here; parse_commands transforms the
\* commands and warns about the non-display ones in check mode.  Every
\* command stays in the batch.
ParseCommands ==
    /\ pc = "parse_commands"
    /\ commands' = transform(params.commands)
    /\ warnings' = CheckModeWarnings(transform(params.commands), check_mode)
    /\ pc' = "parse_conditionals"
    /\ UNCHANGED <<params, check_mode, conditionals, retries, responses, outcome,
                   failed_conditions, result, execs, sleeps, slept, failures,
                   evals, satisfied, evalLog,
                   leftLog, responsesLog, sent>>

\* Lines 209-218: the conditionals are built in order; the first constructor
\* that raises ends the comprehension.  AttributeError is caught and becomes
\* fail_json (line 214); any other exception leaves main() uncaught.
ParseConditionals ==
    /\ pc = "parse_conditionals"
    /\ LET built == Parsed(params.wait_for)
           first == FirstFailure(built)
       IN IF first = 0
          THEN /\ conditionals' = built
               /\ retries' = params.retries
               /\ pc' = "loop"
               /\ outcome' = outcome
          ELSE /\ outcome' = IF built[first].status = "AttributeError"
                             THEN "InvalidCondition"
                             ELSE "UncaughtException"
               /\ pc' = "done"
               /\ UNCHANGED <<conditionals, retries>>
    /\ UNCHANGED <<params, check_mode, commands, warnings, responses,
                   failed_conditions, result, execs, sleeps, slept, failures,
                   evals, satisfied, evalLog,
                   leftLog, responsesLog, sent>>

\* Line 220: while retries > 0.
LoopTest ==
    /\ pc = "loop"
    /\ pc' = IF LoopCond(retries) THEN "run_commands" ELSE "after_loop"
    /\ UNCHANGED <<params, check_mode, commands, warnings, conditionals, retries,
                   responses, outcome, failed_conditions, result, execs, sleeps,
                   slept, failures, evals, satisfied,
                   evalLog,
                   leftLog, responsesLog, sent>>

\* Line 221: run_commands returns the responses, or fails, which ends the
\* process (nothing in main() catches it).
RunCommands ==
    /\ pc = "run_commands"
    /\ execs' = execs + 1
    /\ sent' = commands
    /\ \/ /\ \E r \in ResponseSets(commands) :
                /\ responses' = Bound(r)
                /\ responsesLog' = Append(responsesLog, r)
          /\ pc' = "evaluate"
          /\ outcome' = outcome
          /\ failures' = failures
       \/ /\ failures' = failures + 1
          /\ pc' = ExecFailed.pc
          /\ outcome' = ExecFailed.outcome
          /\ responses' = responses
          /\ responsesLog' = responsesLog
    /\ UNCHANGED <<params, check_mode, commands, warnings, conditionals, retries,
                   failed_conditions, result, sleeps, slept, evals, satisfied,
                   evalLog,
                   leftLog>>

\* Lines 223-231: the evaluation pass and the break test.
Evaluate ==
    /\ pc = "evaluate"
    /\ LET pass == EvalPass(conditionals, conditionals, responses.value, params.match, <<>>)
       IN /\ evals' = evals + 1
          /\ evalLog' = Append(evalLog, pass.log)
          /\ leftLog' = Append(leftLog, [i \in 1..Len(pass.conditionals) |->
                                            pass.conditionals[i].id])
          /\ satisfied' = satisfied \cup
                 {pass.log[i][1] : i \in {j \in 1..Len(pass.log) : pass.log[j][2] = "true"}}
          /\ IF pass.raised
             THEN /\ outcome' = "EvalError"
                  /\ pc' = "done"
                  /\ conditionals' = pass.conditionals
             ELSE /\ conditionals' = pass.conditionals
                  /\ pc' = IF Breaks(pass.conditionals) THEN "after_loop" ELSE "sleep"
                  /\ outcome' = outcome
    /\ UNCHANGED <<params, check_mode, commands, warnings, retries, responses,
                   failed_conditions, result, execs, sleeps, slept, failures,
                   responsesLog, sent>>

\* Lines 233-234: time.sleep(interval); retries -= 1.
Sleep ==
    /\ pc = "sleep"
    /\ sleeps' = sleeps + 1
    /\ slept' = slept + params.interval
    /\ retries' = retries - 1
    /\ pc' = "loop"
    /\ UNCHANGED <<params, check_mode, commands, warnings, conditionals, responses,
                   outcome, failed_conditions, result, execs, failures, evals,
                   satisfied, evalLog,
                   leftLog, responsesLog, sent>>

\* Lines 236-246: fail_json with the outstanding raw strings, or the result.
\* Reading `responses` before any assignment raises UnboundLocalError.
Finish ==
    /\ pc = "after_loop"
    /\ pc' = "done"
    /\ IF conditionals # <<>>
       THEN /\ outcome' = "RetryExhausted"
            /\ failed_conditions' = Raws(conditionals)
            /\ result' = result
       ELSE IF ~responses.bound
            THEN /\ outcome' = "UnboundLocalError"
                 /\ UNCHANGED <<failed_conditions, result>>
            ELSE /\ outcome' = "success"
                 /\ result' = [changed |-> FALSE,
                                stdout |-> Returned(responses),
                                stdout_lines |-> to_lines(Returned(responses))]
                 /\ failed_conditions' = failed_conditions
    /\ UNCHANGED <<params, check_mode, commands, warnings, conditionals, retries,
                   responses, execs, sleeps, slept, failures, evals, satisfied,
                   evalLog,
                   leftLog, responsesLog, sent>>

Next ==
    \/ ParseCommands
    \/ ParseConditionals
    \/ LoopTest
    \/ RunCommands
    \/ Evaluate
    \/ Sleep
    \/ Finish

Spec == Init /\ [][Next]_vars

\* main() is one sequential thread: every call it makes is taken to return
\* (or fail), and a step that can be taken is taken.
FairSpec == Spec /\ WF_vars(Next)

(***************************************************************************)
(* Vocabulary of the properties.                                           *)
(***************************************************************************)
Ids(conds) == {conds[i].id : i \in 1..Len(conds)}

PastParsing == pc \notin {"parse_commands", "parse_conditionals"}

\* Some raw string of wait_for is rejected by the Conditional constructor.
HasBadCondition ==
    \E i \in 1..Len(params.wait_for) :
        Conditional(params.wait_for[i], i).status # "ok"

\* No conditional of wait_for refers to a response that does not exist.
NoneRaises ==
    \A i \in 1..Len(params.wait_for) :
        Conditional(params.wait_for[i], i).index < Len(params.commands)

\* Some pass saw a conditional raise.
EvalRaised ==
    \E k \in 1..Len(evalLog) : \E j \in 1..Len(evalLog[k]) : evalLog[k][j][2] = "error"

PassHasTrue(k) == \E j \in 1..Len(evalLog[k]) : evalLog[k][j][2] = "true"

\* A finished run with parsable, non-empty conditions none of which ever
\* returned True or raised, against a collaborator that never failed.
NeverSatisfiedRun ==
    /\ pc = "done"
    /\ params.wait_for # <<>>
    /\ ~HasBadCondition
    /\ NoneRaises
    /\ failures = 0
    /\ satisfied = {}

(***************************************************************************)
(* Properties.                                                             *)
(***************************************************************************)

\* C1: with retries = 0 and a non-empty set of always-false conditions, the
\* run makes exactly one execution call, sleeps zero times and fails with
\* RetryExhausted.
C1_RetriesZeroRunsOnce ==
    (NeverSatisfiedRun /\ params.retries = 0) =>
        (execs = 1 /\ sleeps = 0 /\ outcome = "RetryExhausted")

\* C2: with an empty wait_for the run succeeds after exactly one execution
\* call and zero sleeps, whatever retries >= 0 and interval >= 0 are.
C2_EmptyWaitForSucceeds ==
    (pc = "done" /\ params.wait_for = <<>> /\ failures = 0) =>
        (outcome = "success" /\ execs = 1 /\ sleeps = 0)

\* C3: the number of execution rounds never exceeds retries, and a run with
\* retries = R >= 1 whose conditions are never satisfied fails with
\* RetryExhausted after exactly R execution rounds.
C3_RoundsWithinRetries ==
    /\ execs <= params.retries
    /\ (NeverSatisfiedRun /\ params.retries >= 1) =>
           (outcome = "RetryExhausted" /\ execs = params.retries)

C3_Witness ==
    /\ NeverSatisfiedRun
    /\ params.retries = MaxRetries
    /\ outcome = "RetryExhausted"
    /\ execs = MaxRetries

C5_AnyInv ==
    (params.match = "any" /\ PastParsing /\ ~HasBadCondition) =>
        /\ \A k \in 1..Len(evalLog) :
               PassHasTrue(k) =>
                   /\ k = Len(evalLog)
                   /\ execs = k
                   /\ conditionals = <<>>
                   /\ pc \in {"after_loop", "done"}
                   /\ outcome = IF pc = "done" THEN "success" ELSE "running"
        /\ (outcome = "success" /\ params.wait_for # <<>>) =>
               (evalLog # <<>> /\ PassHasTrue(Len(evalLog)))

C5_AnyStep ==
    (params.match = "any" /\ PastParsing /\ conditionals' # conditionals) =>
        (conditionals = Parsed(params.wait_for) /\ conditionals' = <<>>)

C5_AnySucceedsAtFirstTrue == []C5_AnyInv /\ [][C5_AnyStep]_vars

\* Success under ANY in the second round, the other condition still false.
C5_Witness ==
    /\ params.match = "any"
    /\ params.wait_for = <<RawBoard, RawHuawei>>
    /\ outcome = "success"
    /\ execs = 2
    /\ sleeps = 1
    /\ Call(Parsed(params.wait_for)[1], responses.value) = "false"

\* C6: under the ALL policy the outstanding set never grows from round to
\* round, and a condition removed because it evaluated true is never
\* outstanding again, even when it is false against later responses.
C6_AllInv ==
    params.match = "all" => satisfied \cap Ids(conditionals) = {}

C6_AllStep ==
    (params.match = "all" /\ PastParsing) =>
        /\ Len(conditionals') <= Len(conditionals)
        /\ Ids(conditionals') \subseteq Ids(conditionals)

C6_AllOutstandingShrinks == []C6_AllInv /\ [][C6_AllStep]_vars

\* A later round has been evaluated in which a removed condition is false
\* and another condition is still outstanding.
C6_Witness ==
    /\ params.match = "all"
    /\ pc = "sleep"
    /\ evals >= 2
    /\ conditionals # <<>>
    /\ \E i \in satisfied :
           /\ i \notin Ids(conditionals)
           /\ Call(Parsed(params.wait_for)[i], responses.value) = "false"

\* The raw strings of the conditions that never returned True, in
\* declaration order.
UnsatisfiedRaws ==
    LET idx == [i \in 1..Len(params.wait_for) |-> i]
        IsUnsatisfied(i) == i \notin satisfied
        kept == SelectSeq(idx, IsUnsatisfied)
    IN [k \in 1..Len(kept) |-> params.wait_for[kept[k]]]

\* C7: when the retry budget is exhausted with conditions outstanding, the
\* run fails with RetryExhausted and failedConditions is exactly the raw
\* strings of the conditions still outstanding, in declaration order, with
\* none that was satisfied and removed in an earlier round.
C7_FailedConditionsAreOutstanding ==
    /\ outcome = "RetryExhausted" =>
           /\ failed_conditions = UnsatisfiedRaws
           /\ failed_conditions = Raws(conditionals)
           /\ failed_conditions # <<>>
    /\ (pc = "done" /\ ~HasBadCondition /\ failures = 0 /\ ~EvalRaised
          /\ retries = 0 /\ conditionals # <<>>) =>
           outcome = "RetryExhausted"

\* Retry exhaustion after one of two conditions was satisfied and removed.
C7_Witness ==
    /\ outcome = "RetryExhausted"
    /\ params.match = "all"
    /\ Len(params.wait_for) = 2
    /\ satisfied = {1}
    /\ failed_conditions = <<params.wait_for[2]>>
    /\ execs >= 2

\* C8: a failure of the execution collaborator in any round ends the run at
\* once with ExecutionFailure: no condition is evaluated against that
\* round, no sleep follows, no further execution call is made, and the
\* outcome is never RetryExhausted or success.
C8_ExecutionFailureIsFatal ==
    /\ failures > 0 =>
           /\ failures = 1
           /\ pc = "done"
           /\ outcome = "ExecutionFailure"
           /\ evals = execs - 1
           /\ sleeps = execs - 1
           /\ failed_conditions = <<>>
           /\ result = NoResult
    /\ outcome = "ExecutionFailure" => failures = 1

\* The collaborator fails in the second round.
C8_Witness ==
    /\ failures = 1
    /\ execs = 2
    /\ outcome = "ExecutionFailure"
    /\ conditionals # <<>>
    /\ retries > 0

\* C9: if any raw condition string fails to parse, the run aborts with an
\* input error distinct from RetryExhausted before any execution call and
\* before any sleep, whatever the retry budget.
C9_ParseFailureAborts ==
    HasBadCondition =>
        /\ execs = 0
        /\ sleeps = 0
        /\ evals = 0
        /\ outcome \in {"running", "InvalidCondition", "UncaughtException"}
        /\ PastParsing => (pc = "done" /\ outcome # "running")

\* The second of two strings is rejected, with retries left.
C9_Witness ==
    /\ pc = "done"
    /\ outcome = "InvalidCondition"
    /\ params.wait_for = <<RawHuawei, RawBadOp>>
    /\ params.retries = MaxRetries
    /\ execs = 0

\* C10: a condition whose evaluation raises ends the run in the round where
\* it is first evaluated: one execution call was made, no sleep occurs, no
\* retry is attempted, and the outcome is not RetryExhausted.
C10_EvalErrorIsFatal ==
    /\ EvalRaised =>
           /\ pc = "done"
           /\ outcome = "EvalError"
           /\ execs = 1
           /\ sleeps = 0
           /\ evals = 1
           /\ retries = params.retries
    /\ outcome = "EvalError" => EvalRaised

\* The second condition raises after the first was evaluated, retries left.
C10_Witness ==
    /\ outcome = "EvalError"
    /\ params.wait_for = <<RawHuawei, RawBoard>>
    /\ Len(params.commands) = 1
    /\ params.retries = MaxRetries
    /\ Len(evalLog[1]) = 2
    /\ execs = 1

PassRaised(k) == \E j \in 1..Len(evalLog[k]) : evalLog[k][j][2] = "error"

\* The completed rounds that left conditions outstanding.
UnsuccessfulRounds ==
    {k \in 1..Len(evalLog) : ~PassRaised(k) /\ leftLog[k] # <<>>}

\* C11: a sleep of interval seconds follows every round that leaves the
\* outstanding set non-empty, the last one before the retry counter reaches
\* zero included, and never a round that empties the set; the number of
\* sleeps equals the number of unsuccessful completed rounds.
C11_SleepAfterEveryUnsuccessfulRound ==
    /\ sleeps = IF pc = "sleep"
                THEN Cardinality(UnsuccessfulRounds) - 1
                ELSE Cardinality(UnsuccessfulRounds)
    /\ slept = sleeps * params.interval
    /\ pc = "sleep" => (evalLog # <<>> /\ Len(evalLog) \in UnsuccessfulRounds)
    /\ (pc = "done" /\ outcome = "RetryExhausted" /\ params.retries >= 1) =>
           (sleeps = execs /\ retries = 0)

\* The last round before the counter reaches zero is followed by a sleep too.
C11_Witness ==
    /\ outcome = "RetryExhausted"
    /\ params.interval = 2
    /\ params.retries = MaxRetries
    /\ satisfied # {}
    /\ retries = 0
    /\ sleeps = MaxRetries
    /\ slept = 2 * MaxRetries

\* C12: on success the returned responses are those of the last execution
\* round, the one in which the outstanding set became empty, never those of
\* an earlier round.
C12_SuccessReturnsLastResponses ==
    outcome = "success" =>
        /\ responsesLog # <<>>
        /\ Len(responsesLog) = execs
        /\ result.stdout = responsesLog[Len(responsesLog)]
        /\ result.stdout_lines = to_lines(responsesLog[Len(responsesLog)])
        /\ leftLog[Len(leftLog)] = <<>>
        /\ \A k \in 1..(Len(leftLog) - 1) : leftLog[k] # <<>>

\* Success in a later round whose responses differ from the first round's.
C12_Witness ==
    /\ outcome = "success"
    /\ execs >= 2
    /\ responsesLog[1] # responsesLog[Len(responsesLog)]
    /\ result.stdout # responsesLog[1]

IsDisplay(item) == startswith(item.command, <<"d", "i", "s">>)

\* C13: in check mode a command whose text does not start with 'dis' is not
\* executed: it produces a warning and is in no batch handed to the
\* execution collaborator.
C13_CheckModeSkipsNonDisplay ==
    check_mode =>
        /\ pc # "parse_commands" =>
               \A i \in 1..Len(commands) :
                   ~IsDisplay(commands[i]) =>
                       \E w \in 1..Len(warnings) :
                           warnings[w].command = commands[i].command
        /\ \A i \in 1..Len(sent) : IsDisplay(sent[i])

\* Under FairSpec every run ends, and each sleep takes one off the
\* remaining retries.
RunTerminates == <>(pc = "done")

RetriesDecrease == [][pc = "sleep" => retries' < retries]_vars

\* C14: every run against a collaborator whose calls return terminates: for
\* any retries >= 0 it reaches a terminal outcome, success when the policy
\* is satisfied and retry exhaustion otherwise, and the remaining-retries
\* counter strictly decreases with every unsuccessful round.
C14_TerminatesInSuccessOrExhaustion ==
    /\ pc = "done" \/ ENABLED Next
    /\ (PastParsing /\ ~HasBadCondition) =>
           retries = params.retries - Cardinality(UnsuccessfulRounds)
                       + (IF pc = "sleep" THEN 1 ELSE 0)
    /\ (pc = "done" /\ ~HasBadCondition /\ NoneRaises /\ failures = 0) =>
           outcome = IF conditionals = <<>> THEN "success" ELSE "RetryExhausted"

\* The collaborator was deterministic: every call returned the same responses.
ConstResponses ==
    /\ failures = 0
    /\ \A k \in 1..Len(responsesLog) : responsesLog[k] = responsesLog[1]

\* What the inputs and the one ResponseSet r determine, read off the
\* verdicts of the conditions against r: the verdict, the failed conditions
\* and the number of execution rounds.
Determined(r) ==
    LET conds == Parsed(params.wait_for)
        n == Len(conds)
        verdict(i) == Call(conds[i], r)
        decisive == {i \in 1..n : verdict(i) # "false"}
        errors == {i \in 1..n : verdict(i) = "error"}
        first == CHOOSE i \in decisive : \A j \in decisive : i <= j
        idx == [i \in 1..n |-> i]
        IsFalse(i) == verdict(i) = "false"
        false == SelectSeq(idx, IsFalse)
        falseRaws == [k \in 1..Len(false) |-> params.wait_for[false[k]]]
        exhausted(raws) == [outcome |-> "RetryExhausted", failed |-> raws,
                            execs |-> params.retries]
        ended(o) == [outcome |-> o, failed |-> <<>>, execs |-> 1]
    IN IF params.match = "any" /\ n > 0
       THEN IF decisive = {} THEN exhausted(params.wait_for)
            ELSE IF verdict(first) = "true" THEN ended("success")
            ELSE ended("EvalError")
       ELSE IF errors # {} THEN ended("EvalError")
            ELSE IF false = <<>> THEN ended("success")
            ELSE exhausted(falseRaws)

\* With retries = 0 no ResponseSet is ever produced.
DeterminedWithoutRound ==
    IF params.wait_for = <<>>
    THEN [outcome |-> "UnboundLocalError", failed |-> <<>>, execs |-> 0]
    ELSE [outcome |-> "RetryExhausted", failed |-> params.wait_for, execs |-> 0]

\* C15: two runs with identical commands, conditions, policy and budget
\* against a deterministic collaborator returning the same ResponseSet every
\* round give the same verdict, the same failedConditions and the same
\* number of execution rounds: all three are a function of the inputs and
\* of that ResponseSet.
C15_RunIsFunctionOfInputs ==
    (pc = "done" /\ ~HasBadCondition /\ ConstResponses) =>
        [outcome |-> outcome, failed |-> failed_conditions, execs |-> execs]
            = IF responsesLog = <<>>
              THEN DeterminedWithoutRound
              ELSE Determined(responsesLog[1])

\* Three rounds on the same responses, one condition met and one not.
C15_Witness ==
    /\ pc = "done"
    /\ ConstResponses
    /\ params.match = "all"
    /\ Len(responsesLog) = 3
    /\ satisfied # {}
    /\ outcome = "RetryExhausted"
    /\ Len(failed_conditions) = 1

AllIds == [i \in 1..Len(params.wait_for) |-> i]

\* The ids outstanding when round k began.
StartOf(k) == IF k = 1 THEN AllIds ELSE leftLog[k - 1]

\* The ids round k evaluated, in evaluation order.
EvaluatedIn(k) == [j \in 1..Len(evalLog[k]) |-> evalLog[k][j][1]]

TruesIn(k) == {j \in 1..Len(evalLog[k]) : evalLog[k][j][2] = "true"}

\* C16: under the ANY policy the outstanding set at every round boundary is
\* the complete original condition list or empty, so a RetryExhausted
\* failure under ANY reports every supplied raw condition string.
C16_AnyAllOrNothing ==
    (params.match = "any" /\ PastParsing /\ ~HasBadCondition) =>
        /\ conditionals \in {Parsed(params.wait_for), <<>>}
        /\ \A k \in 1..Len(leftLog) : leftLog[k] \in {AllIds, <<>>}
        /\ outcome = "RetryExhausted" => failed_conditions = params.wait_for

\* Retry exhaustion under ANY with two conditions, after several rounds.
C16_Witness ==
    /\ params.match = "any"
    /\ outcome = "RetryExhausted"
    /\ Len(params.wait_for) = 2
    /\ execs = MaxRetries
    /\ failed_conditions = params.wait_for

\* C17: in each round under the ALL policy every condition outstanding at
\* the start of the round is evaluated exactly once, in declaration order,
\* against that round's ResponseSet; a removal during the pass makes no
\* other outstanding condition skipped or evaluated twice.
C17_AllEvaluatesEachOnce ==
    (params.match = "all" /\ ~HasBadCondition) =>
        \A k \in 1..Len(evalLog) :
            /\ IF PassRaised(k)
               THEN /\ EvaluatedIn(k) = SubSeq(StartOf(k), 1, Len(evalLog[k]))
                    /\ evalLog[k][Len(evalLog[k])][2] = "error"
               ELSE EvaluatedIn(k) = StartOf(k)
            /\ \A i, j \in 1..Len(evalLog[k]) :
                   i < j => evalLog[k][i][1] < evalLog[k][j][1]
            /\ \A j \in 1..Len(evalLog[k]) :
                   evalLog[k][j][2] =
                       Call(Parsed(params.wait_for)[evalLog[k][j][1]], responsesLog[k])

\* The first condition is removed in a pass that goes on to evaluate the
\* second, which alone is evaluated in the next round.
C17_Witness ==
    /\ params.match = "all"
    /\ Len(evalLog) = 2
    /\ evalLog[1] = <<<<1, "true">>, <<2, "false">>>>
    /\ EvaluatedIn(2) = <<2>>

\* C18: duplicate raw condition strings are independent entries of the
\* outstanding set: satisfying or removing one entry removes exactly that
\* entry, and on retry exhaustion failedConditions holds the string once
\* per entry still outstanding.
C18_DuplicatesAreIndependent ==
    (PastParsing /\ ~HasBadCondition) =>
        /\ Cardinality(Ids(conditionals)) = Len(conditionals)
        /\ \A i \in 1..Len(conditionals) :
               LET rest == remove(conditionals, conditionals[i])
               IN /\ Len(rest) = Len(conditionals) - 1
                  /\ Ids(rest) = Ids(conditionals) \ {conditionals[i].id}
        /\ params.match = "all" =>
               \A k \in 1..Len(leftLog) :
                   Len(leftLog[k]) = Len(StartOf(k)) - Cardinality(TruesIn(k))
        /\ outcome = "RetryExhausted" =>
               /\ Len(failed_conditions) = Len(params.wait_for) - Cardinality(satisfied)
               /\ failed_conditions = UnsatisfiedRaws

\* The same string twice, never satisfied: it is reported twice.
C18_Witness ==
    /\ outcome = "RetryExhausted"
    /\ params.wait_for = <<RawHuawei, RawHuawei>>
    /\ failed_conditions = <<RawHuawei, RawHuawei>>
    /\ execs >= 1

\* Condition i returned True in some round at whose start it was outstanding.
MetWhileOutstanding(i) ==
    \E k \in 1..Len(evalLog) :
        /\ i \in Range(StartOf(k))
        /\ <<i, "true">> \in Range(evalLog[k])

\* C19: under the ALL policy a run (with conditions) succeeds exactly when
\* every condition evaluated true in at least one round within the budget
\* while it was outstanding; the rounds may differ per condition, so the
\* final ResponseSet of a successful run need not satisfy all of them.
C19_AllSucceedsIffEachMetOnce ==
    (pc = "done" /\ params.match = "all" /\ params.wait_for # <<>>
       /\ ~HasBadCondition) =>
        /\ outcome = "success" <=>
               \A i \in 1..Len(params.wait_for) : MetWhileOutstanding(i)
        /\ \A i \in 1..Len(params.wait_for) : MetWhileOutstanding(i) <=> i \in satisfied
        /\ outcome = "success" => execs <= params.retries

\* A successful run whose returned responses leave a condition false.
C19_Witness ==
    /\ params.match = "all"
    /\ outcome = "success"
    /\ \E i \in 1..Len(params.wait_for) :
           Call(Parsed(params.wait_for)[i], result.stdout) = "false"

\* C20: a success result is only ever reported after at least one execution
\* round has completed: in no reachable state does the success path (line
\* 241 on) build its result while no ResponseSet has been assigned.
C20_SuccessPathHasResponses ==
    /\ outcome = "success" => execs >= 1
    /\ (pc = "after_loop" /\ conditionals = <<>>) => responses.bound

====
